---- MODULE Spec2Model ----
(***************************************************************************)
(* AI Tax Regime Navigator: the tax engine (src/tax_engine.py) and the     *)
(* input sanitizer (src/guardrails.py) as driven by src/app.py.            *)
(*                                                                         *)
(* Amounts.  The program computes in Python floats.  The model computes in *)
(* exact decimal fixed point, on two grids:                                *)
(*   - income-side amounts (incomes, deductions, taxable income) are       *)
(*     integers counting tenths of a rupee: R(x) is x rupees;              *)
(*   - tax-side amounts (base tax, cess, total) are integers counting      *)
(*     1/5000 of a rupee: T(x) is x rupees.                                *)
(* Every input of the model is a whole number of rupees, so 10% / 40% /    *)
(* 50% of a salary lies on the first grid, a slab tax (5..30% of a         *)
(* multiple of 0.1) and its 4% cess (a multiple of 0.0002) on the second.  *)
(* The binary representation error of floats is not modelled; rounding is  *)
(* Python's round(): to the nearest, ties to even.                         *)
(*                                                                         *)
(* Strings that the program lower-cases or strips are sequences of         *)
(* one-character strings, so that lower() and strip() are computed.        *)
(*                                                                         *)
(* A record is a function from its keys; a key the caller left out is      *)
(* absent from the domain, and dict.get() supplies the default.            *)
(*                                                                         *)
(* Incomes stay below 2,000,000 rupees, where every slab and both rebates  *)
(* are in play; the sanitizer's cap on annual_income (100,000,000) is      *)
(* modelled but lies beyond the incomes checked.                           *)
(***************************************************************************)
EXTENDS Integers, Sequences, FiniteSets, TLC

VARIABLES
    raw,                  \* app.py: the record built from the form
    data,                 \* the record handed to the engine
    validation_warnings,  \* app.py: the sanitizer's warnings
    result,               \* what calculate_comprehensive returned
    pc,                   \* where the run stands
    pt_args, pt_ret,      \* a call of get_professional_tax and its return value
    slab_ti, slab_ret,    \* two taxable incomes and their slab taxes in both regimes
    pair, pair_ret        \* two profiles and their New Regime results

vars == <<raw, data, validation_warnings, result, pc, pt_args, pt_ret, slab_ti, slab_ret, pair, pair_ret>>

\* The value of a variable that the specification at hand does not use.
Idle == <<>>

----------------------------------------------------------------------------
(* Units *)

\* x rupees on the income grid (tenths of a rupee).
R(x) == x * 10

\* x rupees on the tax grid (1/5000 of a rupee).
T(x) == x * 5000

\* rate percent of the income-grid amount x, on the tax grid: x/10 * rate/100 * 5000.
Pct(x, rate) == x * 5 * rate

\* rate percent of the income-grid amount x, on the income grid (exact for whole rupees
\* and the rates 10, 40 and 50 used by the HRA rule).
PctInc(x, rate) == (x * rate) \div 100

Min2(a, b) == IF a <= b THEN a ELSE b

Max2(a, b) == IF a >= b THEN a ELSE b

Abs(a) == IF a >= 0 THEN a ELSE 0 - a

\* Python round(): x to the nearest multiple of step, a tie to the even multiple (x >= 0).
RoundHalfEven(x, step) ==
    LET q == x \div step
        r == x % step
    IN  IF 2 * r < step THEN q * step
        ELSE IF 2 * r > step THEN (q + 1) * step
        ELSE IF q % 2 = 0 THEN q * step
        ELSE (q + 1) * step

\* round(v, 2) of a tax-grid amount: a paisa is 50 units.
round2(v) == RoundHalfEven(v, 50)

\* round(v, 2) of an income-grid amount: the grid (0.1) is coarser than a paisa, so
\* the amount is scaled to paise, rounded to a whole paisa and scaled back.
round2_inc(v) == RoundHalfEven(v * 10, 1) \div 10

----------------------------------------------------------------------------
(* str.lower() and str.strip() *)

UpperChars ==
    <<"A", "B", "C", "D", "E", "F", "G", "H", "I", "J", "K", "L", "M",
      "N", "O", "P", "Q", "R", "S", "T", "U", "V", "W", "X", "Y", "Z">>

LowerChars ==
    <<"a", "b", "c", "d", "e", "f", "g", "h", "i", "j", "k", "l", "m",
      "n", "o", "p", "q", "r", "s", "t", "u", "v", "w", "x", "y", "z">>

Whitespace == {" ", "\t", "\n"}

lower_char(c) ==
    IF \E i \in DOMAIN UpperChars : UpperChars[i] = c
    THEN LowerChars[CHOOSE i \in DOMAIN UpperChars : UpperChars[i] = c]
    ELSE c

lower(s) == [i \in DOMAIN s |-> lower_char(s[i])]

RECURSIVE lstrip(_)
lstrip(s) ==
    IF s # <<>> /\ Head(s) \in Whitespace THEN lstrip(Tail(s)) ELSE s

RECURSIVE rstrip(_)
rstrip(s) ==
    IF s # <<>> /\ s[Len(s)] \in Whitespace THEN rstrip(SubSeq(s, 1, Len(s) - 1)) ELSE s

strip(s) == rstrip(lstrip(s))

----------------------------------------------------------------------------
(* src/tax_engine.py: get_professional_tax *)

high_pt_states ==
    { <<"m", "a", "h", "a", "r", "a", "s", "h", "t", "r", "a">>,
      <<"k", "a", "r", "n", "a", "t", "a", "k", "a">>,
      <<"t", "e", "l", "a", "n", "g", "a", "n", "a">>,
      <<"a", "n", "d", "h", "r", "a", " ", "p", "r", "a", "d", "e", "s", "h">>,
      <<"w", "e", "s", "t", " ", "b", "e", "n", "g", "a", "l">>,
      <<"t", "a", "m", "i", "l", " ", "n", "a", "d", "u">>,
      <<"g", "u", "j", "a", "r", "a", "t">>,
      <<"m", "a", "d", "h", "y", "a", " ", "p", "r", "a", "d", "e", "s", "h">>,
      <<"k", "e", "r", "a", "l", "a">>,
      <<"o", "d", "i", "s", "h", "a">> }

\* Mutant of get_professional_tax: the thresholds are inclusive.
get_professional_tax_inclusive(state, gross_income) ==
    IF strip(lower(state)) \in high_pt_states
    THEN IF gross_income >= R(150000) THEN R(2500)
         ELSE IF gross_income >= R(100000) THEN R(2000)
         ELSE 0
    ELSE 0

get_professional_tax(state, gross_income) ==
    IF strip(lower(state)) \in high_pt_states
    THEN IF gross_income > R(150000) THEN R(2500)
         ELSE IF gross_income > R(100000) THEN R(2000)
         ELSE 0
    ELSE 0

----------------------------------------------------------------------------
(* src/tax_engine.py: the slab computations, before the rebate *)

\* Old regime, one operator per branch of the if/elif chain.
old_slab_0(taxable_income) == 0

old_slab_5(taxable_income) == Pct(taxable_income - R(250000), 5)

old_slab_20(taxable_income) == T(12500) + Pct(taxable_income - R(500000), 20)

old_slab_30(taxable_income) == T(112500) + Pct(taxable_income - R(1000000), 30)

\* Mutant of old_slab_tax: 20% flat on the whole amount in the third bracket.
old_slab_tax_flat(taxable_income) ==
    IF taxable_income <= R(250000) THEN old_slab_0(taxable_income)
    ELSE IF taxable_income <= R(500000) THEN old_slab_5(taxable_income)
    ELSE IF taxable_income <= R(1000000) THEN Pct(taxable_income, 20)
    ELSE old_slab_30(taxable_income)

old_slab_tax(taxable_income) ==
    IF taxable_income <= R(250000) THEN old_slab_0(taxable_income)
    ELSE IF taxable_income <= R(500000) THEN old_slab_5(taxable_income)
    ELSE IF taxable_income <= R(1000000) THEN old_slab_20(taxable_income)
    ELSE old_slab_30(taxable_income)

\* New regime, one operator per branch of the if/elif chain.
new_slab_0(taxable_income) == 0

new_slab_5(taxable_income) == Pct(taxable_income - R(300000), 5)

new_slab_10(taxable_income) == T(15000) + Pct(taxable_income - R(600000), 10)

new_slab_15(taxable_income) == T(45000) + Pct(taxable_income - R(900000), 15)

new_slab_20(taxable_income) == T(90000) + Pct(taxable_income - R(1200000), 20)

new_slab_30(taxable_income) == T(150000) + Pct(taxable_income - R(1500000), 30)

\* Mutant of new_slab_tax: the third bracket carries the tax of two full brackets.
new_slab_tax_carry_45000(taxable_income) ==
    IF taxable_income <= R(300000) THEN new_slab_0(taxable_income)
    ELSE IF taxable_income <= R(600000) THEN new_slab_5(taxable_income)
    ELSE IF taxable_income <= R(900000) THEN T(15000) + new_slab_10(taxable_income)
    ELSE IF taxable_income <= R(1200000) THEN new_slab_15(taxable_income)
    ELSE IF taxable_income <= R(1500000) THEN new_slab_20(taxable_income)
    ELSE new_slab_30(taxable_income)

new_slab_tax(taxable_income) ==
    IF taxable_income <= R(300000) THEN new_slab_0(taxable_income)
    ELSE IF taxable_income <= R(600000) THEN new_slab_5(taxable_income)
    ELSE IF taxable_income <= R(900000) THEN new_slab_10(taxable_income)
    ELSE IF taxable_income <= R(1200000) THEN new_slab_15(taxable_income)
    ELSE IF taxable_income <= R(1500000) THEN new_slab_20(taxable_income)
    ELSE new_slab_30(taxable_income)

----------------------------------------------------------------------------
(* src/tax_engine.py: the two calculators and the comparison *)

\* dict.get(key, default)
Get(d, key, default) == IF key \in DOMAIN d THEN d[key] ELSE default

\* float(data.get(key, 0) or 0)
Num(d, key) == Get(d, key, 0)

Delhi == <<"D", "e", "l", "h", "i">>

metro == <<"m", "e", "t", "r", "o">>

non_metro == <<"n", "o", "n", "-", "m", "e", "t", "r", "o">>

Non_Metro == <<"N", "o", "n", "-", "M", "e", "t", "r", "o">>

\* Mutant of hra_exemption: gross income is the base of the 10% and of the limit.
hra_exemption_on_gross(d) ==
    LET salary == Num(d, "annual_income")
        gross == Num(d, "annual_income") + Num(d, "income_from_interest")
                     + Num(d, "income_from_other_sources")
        hra_received == Num(d, "hra_received")
        rent_paid == Num(d, "rent_paid")
        rent_minus_10 == Max2(0, rent_paid - PctInc(gross, 10))
        is_metro == lower(strip(Get(d, "city_type", <<>>))) = metro
        limit_pct == IF is_metro THEN 50 ELSE 40
        hra_limit == PctInc(gross, limit_pct)
    IN  IF hra_received > 0 /\ rent_paid > 0 /\ salary > 0
        THEN Min2(hra_received, Min2(rent_minus_10, hra_limit))
        ELSE 0

\* Lines 38-47 of calculate_tax_old_regime.
hra_exemption(d) ==
    LET salary == Num(d, "annual_income")
        hra_received == Num(d, "hra_received")
        rent_paid == Num(d, "rent_paid")
        actual_hra == hra_received
        rent_minus_10 == Max2(0, rent_paid - PctInc(salary, 10))
        is_metro == lower(strip(Get(d, "city_type", <<>>))) = metro
        limit_pct == IF is_metro THEN 50 ELSE 40
        hra_limit == PctInc(salary, limit_pct)
    IN  IF hra_received > 0 /\ rent_paid > 0 /\ salary > 0
        THEN Min2(actual_hra, Min2(rent_minus_10, hra_limit))
        ELSE 0

\* Mutant of old_rebate: the rebate stops at the first slab ceiling.
old_rebate_at_250000(taxable_income, base_tax) ==
    IF taxable_income <= R(250000) THEN 0 ELSE base_tax

\* Lines 65-66: rebate 87A of the Old Regime.
old_rebate(taxable_income, base_tax) ==
    IF taxable_income <= R(500000) THEN 0 ELSE base_tax

\* Mutant of new_rebate: the Old Regime's threshold is used.
new_rebate_at_500000(taxable_income, base_tax) ==
    IF taxable_income <= R(500000) THEN 0 ELSE base_tax

\* Lines 117-118: rebate 87A of the New Regime.
new_rebate(taxable_income, base_tax) ==
    IF taxable_income <= R(700000) THEN 0 ELSE base_tax

\* Mutant of cess_of: a 5% cess.
cess_of_5_percent(base_tax) == base_tax \div 20

\* Lines 68 and 120: cess = base_tax * 0.04, that is base_tax / 25 (a slab tax is a
\* multiple of 25 units of the tax grid, so the division is exact).
cess_of(base_tax) == base_tax \div 25

\* Mutant of calculate_tax_old_regime: professional tax is reported in the components
\* but left out of total_deductions.
calculate_tax_old_regime_without_pt(d) ==
    LET salary == Num(d, "annual_income")
        gross_income == salary + Num(d, "income_from_interest")
                            + Num(d, "income_from_other_sources")
        prof_tax == get_professional_tax(Get(d, "state", Delhi), gross_income)
        ded_80c == Min2(Num(d, "section_80c"), R(150000))
        ded_80d == Min2(Num(d, "section_80d"), R(25000))
        ded_80ccd_1b == Min2(Num(d, "section_80ccd_1b"), R(50000))
        ded_80tta == Min2(Num(d, "section_80tta"), R(10000))
        home_loan_interest == Min2(Num(d, "home_loan_interest"), R(200000))
        std_deduction == R(50000)
        hra == hra_exemption(d)
        total_deductions == std_deduction + ded_80c + ded_80d + ded_80ccd_1b
                                + ded_80tta + home_loan_interest + hra
        taxable_income == Max2(0, gross_income - total_deductions)
        base_tax == old_rebate(taxable_income, old_slab_tax(taxable_income))
        cess == cess_of(base_tax)
    IN  [ regime |-> "Old Regime",
          gross_income |-> round2_inc(gross_income),
          total_deductions |-> round2_inc(total_deductions),
          taxable_income |-> round2_inc(taxable_income),
          base_tax |-> round2(base_tax),
          cess |-> round2(cess),
          total_tax_payable |-> round2(base_tax + cess),
          components |->
              ("Standard Deduction" :> std_deduction)
              @@ ("80C" :> ded_80c)
              @@ ("80D" :> ded_80d)
              @@ ("80CCD(1B) (NPS)" :> ded_80ccd_1b)
              @@ ("80TTA" :> ded_80tta)
              @@ ("HRA Exemption" :> round2_inc(hra))
              @@ ("Home Loan Interest (24(b))" :> home_loan_interest)
              @@ ("Professional Tax" :> prof_tax) ]

calculate_tax_old_regime(d) ==
    LET salary == Num(d, "annual_income")
        interest == Num(d, "income_from_interest")
        other == Num(d, "income_from_other_sources")
        gross_income == salary + interest + other
        prof_tax == get_professional_tax(Get(d, "state", Delhi), gross_income)
        ded_80c == Min2(Num(d, "section_80c"), R(150000))
        ded_80d == Min2(Num(d, "section_80d"), R(25000))
        ded_80ccd_1b == Min2(Num(d, "section_80ccd_1b"), R(50000))
        ded_80tta == Min2(Num(d, "section_80tta"), R(10000))
        home_loan_interest == Min2(Num(d, "home_loan_interest"), R(200000))
        std_deduction == R(50000)
        hra == hra_exemption(d)
        total_deductions == std_deduction + prof_tax + ded_80c + ded_80d + ded_80ccd_1b
                                + ded_80tta + home_loan_interest + hra
        taxable_income == Max2(0, gross_income - total_deductions)
        base_tax == old_rebate(taxable_income, old_slab_tax(taxable_income))
        cess == cess_of(base_tax)
        total_tax == base_tax + cess
    IN  [ regime |-> "Old Regime",
          gross_income |-> round2_inc(gross_income),
          total_deductions |-> round2_inc(total_deductions),
          taxable_income |-> round2_inc(taxable_income),
          base_tax |-> round2(base_tax),
          cess |-> round2(cess),
          total_tax_payable |-> round2(total_tax),
          components |->
              ("Standard Deduction" :> std_deduction)
              @@ ("80C" :> ded_80c)
              @@ ("80D" :> ded_80d)
              @@ ("80CCD(1B) (NPS)" :> ded_80ccd_1b)
              @@ ("80TTA" :> ded_80tta)
              @@ ("HRA Exemption" :> round2_inc(hra))
              @@ ("Home Loan Interest (24(b))" :> home_loan_interest)
              @@ ("Professional Tax" :> prof_tax) ]

\* Mutant of calculate_tax_new_regime: section 80C is deducted as in the Old Regime.
calculate_tax_new_regime_with_80c(d) ==
    LET salary == Num(d, "annual_income")
        gross_income == salary + Num(d, "income_from_interest")
                            + Num(d, "income_from_other_sources")
        std_deduction == IF salary > 0 THEN R(50000) ELSE 0
        total_deductions == std_deduction + Min2(Num(d, "section_80c"), R(150000))
        taxable_income == Max2(0, gross_income - total_deductions)
        base_tax == new_rebate(taxable_income, new_slab_tax(taxable_income))
        cess == cess_of(base_tax)
    IN  [ regime |-> "New Regime",
          gross_income |-> round2_inc(gross_income),
          total_deductions |-> round2_inc(total_deductions),
          taxable_income |-> round2_inc(taxable_income),
          base_tax |-> round2(base_tax),
          cess |-> round2(cess),
          total_tax_payable |-> round2(base_tax + cess) ]

calculate_tax_new_regime(d) ==
    LET salary == Num(d, "annual_income")
        interest_income == Num(d, "income_from_interest")
        other_income == Num(d, "income_from_other_sources")
        gross_income == salary + interest_income + other_income
        std_deduction == IF salary > 0 THEN R(50000) ELSE 0
        total_deductions == std_deduction
        taxable_income == Max2(0, gross_income - total_deductions)
        base_tax == new_rebate(taxable_income, new_slab_tax(taxable_income))
        cess == cess_of(base_tax)
        total_tax == base_tax + cess
    IN  [ regime |-> "New Regime",
          gross_income |-> round2_inc(gross_income),
          total_deductions |-> round2_inc(total_deductions),
          taxable_income |-> round2_inc(taxable_income),
          base_tax |-> round2(base_tax),
          cess |-> round2(cess),
          total_tax_payable |-> round2(total_tax) ]

\* Mutant of best_regime: a tie goes to the New Regime.
best_regime_tie_new(old_r, new_r) ==
    IF new_r.total_tax_payable <= old_r.total_tax_payable THEN "New Regime" ELSE "Old Regime"

\* Line 138.
best_regime(old_r, new_r) ==
    IF new_r.total_tax_payable < old_r.total_tax_payable THEN "New Regime" ELSE "Old Regime"

\* f"{gap:,.0f}": the gap rounded to a whole number of rupees.
format_0f(gap) == RoundHalfEven(gap, 10) \div 10

\* Mutant of suggestions_for: the 80C check also fires at the limit itself.
suggestions_for_80c_at_limit(d) ==
    (IF Num(d, "section_80c") <= R(150000)
        THEN << <<"80C", format_0f(R(150000) - Num(d, "section_80c"))>> >> ELSE <<>>)
    \o (IF Num(d, "section_80ccd_1b") < R(50000)
        THEN << <<"NPS", format_0f(R(50000) - Num(d, "section_80ccd_1b"))>> >> ELSE <<>>)
    \o (IF Num(d, "section_80d") = 0 THEN << <<"Health Insurance">> >> ELSE <<>>)

\* Lines 141-149: each suggestion is its topic and, where the text has one, its amount.
suggestions_for(d) ==
    (IF Num(d, "section_80c") < R(150000)
        THEN << <<"80C", format_0f(R(150000) - Num(d, "section_80c"))>> >> ELSE <<>>)
    \o (IF Num(d, "section_80ccd_1b") < R(50000)
        THEN << <<"NPS", format_0f(R(50000) - Num(d, "section_80ccd_1b"))>> >> ELSE <<>>)
    \o (IF Num(d, "section_80d") = 0 THEN << <<"Health Insurance">> >> ELSE <<>>)

calculate_comprehensive(d) ==
    LET old_r == calculate_tax_old_regime(d)
        new_r == calculate_tax_new_regime(d)
        best == best_regime(old_r, new_r)
        tax_saved == Abs(old_r.total_tax_payable - new_r.total_tax_payable)
    IN  [ old_regime |-> old_r,
          new_regime |-> new_r,
          best_regime |-> best,
          tax_saved |-> round2(tax_saved),
          suggestions |-> suggestions_for(d) ]

----------------------------------------------------------------------------
(* src/guardrails.py: validate_and_sanitize_inputs *)

ALLOWED_STATES ==
    { <<"a", "n", "d", "h", "r", "a", " ", "p", "r", "a", "d", "e", "s", "h">>,
      <<"b", "i", "h", "a", "r">>,
      <<"d", "e", "l", "h", "i">>,
      <<"g", "u", "j", "a", "r", "a", "t">>,
      <<"h", "a", "r", "y", "a", "n", "a">>,
      <<"k", "a", "r", "n", "a", "t", "a", "k", "a">>,
      <<"k", "e", "r", "a", "l", "a">>,
      <<"m", "a", "d", "h", "y", "a", " ", "p", "r", "a", "d", "e", "s", "h">>,
      <<"m", "a", "h", "a", "r", "a", "s", "h", "t", "r", "a">>,
      <<"o", "d", "i", "s", "h", "a">>,
      <<"p", "u", "n", "j", "a", "b">>,
      <<"r", "a", "j", "a", "s", "t", "h", "a", "n">>,
      <<"t", "a", "m", "i", "l", " ", "n", "a", "d", "u">>,
      <<"t", "e", "l", "a", "n", "g", "a", "n", "a">>,
      <<"u", "t", "t", "a", "r", " ", "p", "r", "a", "d", "e", "s", "h">>,
      <<"w", "e", "s", "t", " ", "b", "e", "n", "g", "a", "l">> }

MAX_ANNUAL_INCOME == R(100000000)

MAX_DEDUCTION_80C == R(150000)

MAX_DEDUCTION_80D == R(50000)

MAX_DEDUCTION_80CCD_1B == R(50000)

MAX_DEDUCTION_80TTA == R(10000)

MAX_HOME_LOAN_INTEREST == R(200000)

MAX_AGE == 120

MIN_AGE == 18

\* _to_number(data.get(key), default): a missing key reads as None, which gives the default.
to_number(d, key, default) == Get(d, key, default)

\* Mutant of clamp_deduction: a negative amount is not raised to 0.
clamp_deduction_no_floor(d, key, cap) == Min2(to_number(d, key, 0), cap)

\* min(max(0, _to_number(data.get(key))), cap)
clamp_deduction(d, key, cap) == Min2(Max2(0, to_number(d, key, 0)), cap)

validate_and_sanitize_inputs(d) ==
    LET annual0 == to_number(d, "annual_income", 0)
        annual1 == IF annual0 < 0 THEN 0 ELSE annual0
        annual == IF annual1 > MAX_ANNUAL_INCOME THEN MAX_ANNUAL_INCOME ELSE annual1
        age0 == to_number(d, "age", 30)
        age == IF age0 < MIN_AGE \/ age0 > MAX_AGE
               THEN Max2(MIN_AGE, Min2(MAX_AGE, age0)) ELSE age0
        state0 == strip(IF Get(d, "state", <<>>) = <<>> THEN Delhi ELSE d["state"])
        state == IF lower(state0) \notin ALLOWED_STATES THEN Delhi ELSE state0
        ct0 == strip(IF Get(d, "city_type", <<>>) = <<>> THEN Non_Metro ELSE d["city_type"])
        ct == IF lower(ct0) \notin {metro, non_metro} THEN Non_Metro ELSE ct0
        out ==
            [ annual_income |-> annual,
              income_from_interest |-> Max2(0, to_number(d, "income_from_interest", 0)),
              income_from_other_sources |->
                  Max2(0, to_number(d, "income_from_other_sources", 0)),
              section_80c |-> clamp_deduction(d, "section_80c", MAX_DEDUCTION_80C),
              section_80d |-> clamp_deduction(d, "section_80d", MAX_DEDUCTION_80D),
              section_80ccd_1b |->
                  clamp_deduction(d, "section_80ccd_1b", MAX_DEDUCTION_80CCD_1B),
              section_80tta |-> clamp_deduction(d, "section_80tta", MAX_DEDUCTION_80TTA),
              home_loan_interest |->
                  clamp_deduction(d, "home_loan_interest", MAX_HOME_LOAN_INTEREST),
              hra_received |-> Max2(0, to_number(d, "hra_received", 0)),
              rent_paid |-> Max2(0, to_number(d, "rent_paid", 0)),
              age |-> age,
              state |-> state,
              city_type |-> ct ]
        warnings ==
            (IF annual0 < 0 THEN <<"Annual income was negative">> ELSE <<>>)
            \o (IF annual1 > MAX_ANNUAL_INCOME THEN <<"Annual income capped at">> ELSE <<>>)
            \o (IF age0 < MIN_AGE \/ age0 > MAX_AGE THEN <<"Age should be between">> ELSE <<>>)
            \o (IF lower(state0) \notin ALLOWED_STATES THEN <<"State not in list">> ELSE <<>>)
    IN  <<out, warnings>>

----------------------------------------------------------------------------
(* Inputs: whole rupees, a few of them around the amounts where the code branches *)

\* How many rupees above each salary anchor the model goes.
MaxJitter == 1

SalaryAnchors == {400000, 750000, 800000, 1100000, 1300000, 1600000}

Salaries == {R(0 - 20000), 0} \cup {R(a + j) : a \in SalaryAnchors, j \in 0..MaxJitter}

Incomes ==
    { [annual_income |-> s, income_from_interest |-> io[1], income_from_other_sources |-> io[2]] :
        s \in Salaries, io \in { <<0, 0>>, <<R(60000), 0>>, <<0, R(0 - 500)>> } }

Deductions ==
    { [ section_80c |-> c, section_80d |-> d, section_80ccd_1b |-> x[1],
        section_80tta |-> x[2], home_loan_interest |-> x[3] ] :
        c \in {0, R(150000), R(200000)},
        d \in {R(0 - 3000), 0, R(25000), R(60000)},
        x \in { <<0, 0, 0>>, <<R(50000), 0, 0>>, <<R(70000), R(12000), R(250000)>> } }

Housing ==
    { [hra_received |-> 0, rent_paid |-> 0],
      [hra_received |-> R(120000), rent_paid |-> 0, city_type |-> <<"M", "e", "t", "r", "o">>],
      [hra_received |-> 0, rent_paid |-> R(180000), city_type |-> Non_Metro],
      [hra_received |-> R(120000), rent_paid |-> R(180000),
       city_type |-> <<"M", "e", "t", "r", "o">>],
      [hra_received |-> R(500000), rent_paid |-> R(480000),
       city_type |-> <<" ", "M", "E", "T", "R", "O">>],
      [hra_received |-> R(500000), rent_paid |-> R(480000), city_type |-> non_metro],
      [hra_received |-> R(60000), rent_paid |-> R(180000),
       city_type |-> <<"V", "i", "l", "l", "a", "g", "e">>],
      [hra_received |-> R(120000), rent_paid |-> R(30000), city_type |-> Non_Metro] }

Persons ==
    { [age |-> 30, state |-> Delhi],
      [age |-> 17, state |-> <<"K", "e", "r", "a", "l", "a">>],
      [age |-> 130,
       state |-> <<" ", "M", "a", "h", "a", "r", "a", "s", "h", "t", "r", "a", " ">>],
      [age |-> 45, state |-> <<"A", "t", "l", "a", "n", "t", "i", "s">>],
      [age |-> 30, state |-> <<"G", "U", "J", "A", "R", "A", "T">>],
      [x \in {} |-> 0] }

RawInputs == {i @@ d @@ h @@ p : i \in Incomes, d \in Deductions, h \in Housing, p \in Persons}

AmountKeys ==
    { "annual_income", "income_from_interest", "income_from_other_sources",
      "section_80c", "section_80d", "section_80ccd_1b", "section_80tta",
      "home_loan_interest", "hra_received", "rent_paid" }

\* The engine's domain: no amount is negative.
NonNegative(d) == \A k \in AmountKeys : Num(d, k) >= 0

----------------------------------------------------------------------------
(* The application: src/app.py builds the raw record, sanitizes it, and hands the *)
(* sanitized record to calculate_comprehensive.  The engine is also a library:    *)
(* calculate_comprehensive may be called on any record of non-negative amounts.   *)

Init ==
    /\ raw \in RawInputs
    /\ data = Idle
    /\ validation_warnings = Idle
    /\ result = Idle
    /\ pc = "input"
    /\ pt_args = Idle /\ pt_ret = Idle
    /\ slab_ti = Idle /\ slab_ret = Idle
    /\ pair = Idle /\ pair_ret = Idle

\* app.py line 75
ValidateAndSanitize ==
    /\ pc = "input"
    /\ data' = validate_and_sanitize_inputs(raw)[1]
    /\ validation_warnings' = validate_and_sanitize_inputs(raw)[2]
    /\ pc' = "sanitized"
    /\ UNCHANGED <<raw, result, pt_args, pt_ret, slab_ti, slab_ret, pair, pair_ret>>

\* app.py lines 80-85
CalculateComprehensive ==
    /\ pc = "sanitized"
    /\ result' = calculate_comprehensive(data)
    /\ pc' = "shown"
    /\ UNCHANGED <<raw, data, validation_warnings, pt_args, pt_ret, slab_ti, slab_ret,
                   pair, pair_ret>>

\* A direct call of the engine on an unsanitized record of non-negative amounts.
CalculateComprehensiveDirect ==
    /\ pc = "input"
    /\ NonNegative(raw)
    /\ data' = raw
    /\ result' = calculate_comprehensive(raw)
    /\ pc' = "returned"
    /\ UNCHANGED <<raw, validation_warnings, pt_args, pt_ret, slab_ti, slab_ret,
                   pair, pair_ret>>

Next == ValidateAndSanitize \/ CalculateComprehensive \/ CalculateComprehensiveDirect

Spec == Init /\ [][Next]_vars

\* The engine has run on data.
Computed == pc \in {"shown", "returned"}

----------------------------------------------------------------------------
(* get_professional_tax called on its own *)

StateNames ==
    { <<"K", "e", "r", "a", "l", "a">>,
      <<"k", "e", "r", "a", "l", "a">>,
      <<" ", "K", "e", "r", "a", "l", "a", " ">>,
      <<"M", "A", "H", "A", "R", "A", "S", "H", "T", "R", "A">>,
      <<"W", "e", "s", "t", " ", "B", "e", "n", "g", "a", "l">>,
      <<"T", "a", "m", "i", "l", " ", "N", "a", "d", "u">>,
      <<"o", "d", "i", "s", "h", "a">>,
      <<"g", "u", "j", "a", "r", "a", "t", "\t">>,
      Delhi,
      <<"B", "i", "h", "a", "r">>,
      <<"A", "t", "l", "a", "n", "t", "i", "s">>,
      <<>> }

GrossIncomes ==
    {0, R(2000000)}
    \cup {R(100000 - j) : j \in 0..MaxJitter} \cup {R(100000 + j) : j \in 0..MaxJitter}
    \cup {R(150000 - j) : j \in 0..MaxJitter} \cup {R(150000 + j) : j \in 0..MaxJitter}

InitPT ==
    /\ pt_args \in [state : StateNames, gross_income : GrossIncomes]
    /\ pt_ret = Idle
    /\ pc = "pt_call"
    /\ raw = Idle /\ data = Idle /\ validation_warnings = Idle /\ result = Idle
    /\ slab_ti = Idle /\ slab_ret = Idle
    /\ pair = Idle /\ pair_ret = Idle

GetProfessionalTax ==
    /\ pc = "pt_call"
    /\ pt_ret' = get_professional_tax(pt_args.state, pt_args.gross_income)
    /\ pc' = "pt_done"
    /\ UNCHANGED <<raw, data, validation_warnings, result, pt_args, slab_ti, slab_ret,
                   pair, pair_ret>>

NextPT == GetProfessionalTax

SpecPT == InitPT /\ [][NextPT]_vars

----------------------------------------------------------------------------
(* The slab computations on their own, on two taxable incomes at a time *)

\* How many rupees around each bracket boundary the model goes.
MaxDelta == 1

Boundaries == {250000, 500000, 1000000, 300000, 600000, 900000, 1200000, 1500000}

SlabPoints ==
    {0, R(1800000)}
    \cup {R(b - j) : b \in Boundaries, j \in 0..MaxDelta}
    \cup {R(b + j) : b \in Boundaries, j \in 0..MaxDelta}

InitSlab ==
    /\ slab_ti \in {t \in SlabPoints \X SlabPoints : t[1] <= t[2]}
    /\ slab_ret = Idle
    /\ pc = "slab_call"
    /\ raw = Idle /\ data = Idle /\ validation_warnings = Idle /\ result = Idle
    /\ pt_args = Idle /\ pt_ret = Idle
    /\ pair = Idle /\ pair_ret = Idle

\* tax_engine.py lines 55-63 and 103-115 on each of the two taxable incomes.
ComputeSlabs ==
    /\ pc = "slab_call"
    /\ slab_ret' = [ old |-> <<old_slab_tax(slab_ti[1]), old_slab_tax(slab_ti[2])>>,
                     new |-> <<new_slab_tax(slab_ti[1]), new_slab_tax(slab_ti[2])>> ]
    /\ pc' = "slab_done"
    /\ UNCHANGED <<raw, data, validation_warnings, result, pt_args, pt_ret, slab_ti,
                   pair, pair_ret>>

NextSlab == ComputeSlabs

SpecSlab == InitSlab /\ [][NextSlab]_vars

----------------------------------------------------------------------------
(* calculate_tax_new_regime on two profiles at a time *)

PairIncomes ==
    { [annual_income |-> s, income_from_interest |-> i, income_from_other_sources |-> 0] :
        s \in {0} \cup {R(800000 + j) : j \in 0..MaxJitter}, i \in {0, R(800000)} }

PairDeductions ==
    { [ section_80c |-> c, section_80d |-> c \div 6, section_80ccd_1b |-> c \div 3,
        section_80tta |-> c \div 15, home_loan_interest |-> c ] : c \in {0, R(150000)} }

PairHousing ==
    { [hra_received |-> 0, rent_paid |-> 0, city_type |-> Non_Metro],
      [hra_received |-> R(120000), rent_paid |-> R(180000), city_type |-> metro] }

PairPersons ==
    { [age |-> 30, state |-> Delhi],
      [age |-> 61, state |-> <<"K", "e", "r", "a", "l", "a">>] }

PairProfiles ==
    {i @@ d @@ h @@ p : i \in PairIncomes, d \in PairDeductions, h \in PairHousing,
                        p \in PairPersons}

InitPair ==
    /\ pair \in PairProfiles \X PairProfiles
    /\ pair_ret = Idle
    /\ pc = "pair_call"
    /\ raw = Idle /\ data = Idle /\ validation_warnings = Idle /\ result = Idle
    /\ pt_args = Idle /\ pt_ret = Idle
    /\ slab_ti = Idle /\ slab_ret = Idle

CalculateNewRegimePair ==
    /\ pc = "pair_call"
    /\ pair_ret' = <<calculate_tax_new_regime(pair[1]), calculate_tax_new_regime(pair[2])>>
    /\ pc' = "pair_done"
    /\ UNCHANGED <<raw, data, validation_warnings, result, pt_args, pt_ret, slab_ti,
                   slab_ret, pair>>

NextPair == CalculateNewRegimePair

SpecPair == InitPair /\ [][NextPair]_vars

----------------------------------------------------------------------------
(* Properties *)

Regimes == {"old_regime", "new_regime"}

\* C1 as stated: in the result of either calculator, the returned cess is exactly 4%
\* of the returned base_tax and the returned total_tax_payable is exactly base_tax
\* times 1.04 (25 * cess = base_tax and 25 * (total - base_tax) = base_tax).
C1_ExactCess ==
    Computed =>
        \A g \in Regimes :
            /\ 25 * result[g].cess = result[g].base_tax
            /\ 25 * (result[g].total_tax_payable - result[g].base_tax) = result[g].base_tax

\* C1 amended: the returned cess is 4% of the returned base_tax rounded to a whole
\* paisa, and the returned total_tax_payable is base_tax times 1.04 rounded to a whole
\* paisa: each is a whole number of paise (50 units) within half a paisa (25 units)
\* of the exact figure.
C1_CessToNearestPaisa ==
    Computed =>
        \A g \in Regimes :
            LET r == result[g]
            IN  /\ r.cess % 50 = 0
                /\ r.total_tax_payable % 50 = 0
                /\ Abs(25 * r.cess - r.base_tax) <= 25 * 25
                /\ Abs(25 * (r.total_tax_payable - r.base_tax) - r.base_tax) <= 25 * 25

\* Witness of C1: a positive New Regime tax whose exact 4% is not a whole paisa.
C1_Witness ==
    /\ Computed
    /\ result.new_regime.base_tax > 0
    /\ 25 * result.new_regime.cess # result.new_regime.base_tax
    /\ result.old_regime.base_tax > 0

\* The profile of the spec's concrete scenarios 1 and 2.
Scenario2 ==
    /\ Computed
    /\ Num(data, "annual_income") = R(800000)
    /\ Num(data, "income_from_interest") = 0
    /\ Num(data, "income_from_other_sources") = 0
    /\ Num(data, "section_80c") = R(150000)
    /\ Num(data, "section_80d") = R(25000)
    /\ Num(data, "section_80ccd_1b") = R(50000)
    /\ Num(data, "section_80tta") = 0
    /\ Num(data, "home_loan_interest") = 0
    /\ Num(data, "hra_received") = 0
    /\ Get(data, "state", Delhi) = Delhi

\* C2 as stated: for the scenario profile the New Regime returns taxable_income
\* 750,000, base_tax 45,000, cess 1,800 and total_tax_payable 46,800.
C2_Scenario2AsStated ==
    Scenario2 =>
        /\ result.new_regime.taxable_income = R(750000)
        /\ result.new_regime.base_tax = T(45000)
        /\ result.new_regime.cess = T(1800)
        /\ result.new_regime.total_tax_payable = T(46800)

\* C2 amended: for the scenario profile the New Regime returns taxable_income
\* 750,000, base_tax 30,000, cess 1,200 and total_tax_payable 31,200.
C2_Scenario2 ==
    Scenario2 =>
        /\ result.new_regime.taxable_income = R(750000)
        /\ result.new_regime.base_tax = T(30000)
        /\ result.new_regime.cess = T(1200)
        /\ result.new_regime.total_tax_payable = T(31200)

\* Witness of C2: the scenario profile has been computed.
C2_Witness == Scenario2 /\ result.new_regime.regime = "New Regime"

\* C3: every deduction field of the sanitized record is non-negative and at most the
\* cap the engine applies: 80C 150,000, 80D 25,000, 80CCD(1B) 50,000, 80TTA 10,000,
\* home-loan interest 200,000.
C3_SanitizedWithinEngineCaps ==
    pc = "sanitized" =>
        /\ data.section_80c >= 0 /\ data.section_80c <= R(150000)
        /\ data.section_80d >= 0 /\ data.section_80d <= R(25000)
        /\ data.section_80ccd_1b >= 0 /\ data.section_80ccd_1b <= R(50000)
        /\ data.section_80tta >= 0 /\ data.section_80tta <= R(10000)
        /\ data.home_loan_interest >= 0 /\ data.home_loan_interest <= R(200000)

\* C4: in the Old Regime result, a taxable_income of at most 500,000 gives base_tax,
\* cess and total_tax_payable 0, and a taxable_income above 500,000 gives the slab
\* amount as base_tax.
C4_OldRebateDominates ==
    Computed =>
        LET r == result.old_regime
        IN  /\ r.taxable_income <= R(500000) =>
                   r.base_tax = 0 /\ r.cess = 0 /\ r.total_tax_payable = 0
            /\ r.taxable_income > R(500000) =>
                   r.base_tax = round2(old_slab_tax(r.taxable_income)) /\ r.base_tax > 0

\* Witness of C4: a taxable income in (250,000, 500,000], where the slabs give a
\* positive amount and the rebate cancels it.
C4_Witness ==
    /\ Computed
    /\ result.old_regime.taxable_income > R(250000)
    /\ result.old_regime.taxable_income <= R(500000)
    /\ old_slab_5(result.old_regime.taxable_income) > 0
    /\ result.old_regime.base_tax = 0

\* C5: in the New Regime result, a taxable_income of at most 700,000 gives base_tax,
\* cess and total_tax_payable 0, and a taxable_income above 700,000 gives the slab
\* amount as base_tax.
C5_NewRebateDominates ==
    Computed =>
        LET r == result.new_regime
        IN  /\ r.taxable_income <= R(700000) =>
                   r.base_tax = 0 /\ r.cess = 0 /\ r.total_tax_payable = 0
            /\ r.taxable_income > R(700000) =>
                   r.base_tax = round2(new_slab_tax(r.taxable_income)) /\ r.base_tax > 0

\* Witness of C5: a taxable income in (600,000, 700,000], in the 10% bracket, where
\* the slabs give a positive amount and the rebate cancels it.
C5_Witness ==
    /\ Computed
    /\ result.new_regime.taxable_income > R(600000)
    /\ result.new_regime.taxable_income <= R(700000)
    /\ new_slab_10(result.new_regime.taxable_income) > 0
    /\ result.new_regime.base_tax = 0

\* C6: before the rebate, each regime's slab tax never decreases as taxable income
\* grows, grows by at most 30% of the growth of the income (no jump), and at every
\* bracket boundary the formula of the bracket below and the formula of the bracket
\* above give the same tax.
C6_SlabsContinuousMonotone ==
    pc = "slab_done" =>
        LET lo == slab_ti[1]
            hi == slab_ti[2]
        IN  /\ slab_ret.old[1] <= slab_ret.old[2]
            /\ slab_ret.new[1] <= slab_ret.new[2]
            /\ hi - lo <= R(10) =>
                   /\ slab_ret.old[2] - slab_ret.old[1] <= Pct(hi - lo, 30)
                   /\ slab_ret.new[2] - slab_ret.new[1] <= Pct(hi - lo, 30)
            /\ lo = R(250000) => old_slab_0(lo) = old_slab_5(lo) /\ slab_ret.old[1] = 0
            /\ lo = R(500000) =>
                   old_slab_5(lo) = old_slab_20(lo) /\ slab_ret.old[1] = T(12500)
            /\ lo = R(1000000) =>
                   old_slab_20(lo) = old_slab_30(lo) /\ slab_ret.old[1] = T(112500)
            /\ lo = R(300000) => new_slab_0(lo) = new_slab_5(lo) /\ slab_ret.new[1] = 0
            /\ lo = R(600000) =>
                   new_slab_5(lo) = new_slab_10(lo) /\ slab_ret.new[1] = T(15000)
            /\ lo = R(900000) =>
                   new_slab_10(lo) = new_slab_15(lo) /\ slab_ret.new[1] = T(45000)
            /\ lo = R(1200000) =>
                   new_slab_15(lo) = new_slab_20(lo) /\ slab_ret.new[1] = T(90000)
            /\ lo = R(1500000) =>
                   new_slab_20(lo) = new_slab_30(lo) /\ slab_ret.new[1] = T(150000)

\* Witness of C6: the two incomes straddle the 500,000 boundary by one rupee.
C6_Witness ==
    /\ pc = "slab_done"
    /\ slab_ti[1] = R(500000)
    /\ slab_ti[2] = R(500001)
    /\ slab_ret.old[2] > slab_ret.old[1]

\* C7: the HRA exemption of the Old Regime is 0 when hra_received, rent_paid or
\* salary is 0; otherwise it is the least of hra_received, max(0, rent_paid - 10% of
\* salary) and 50% (Metro) or 40% (otherwise) of salary, hence never above any of
\* the three and never negative.
C7_HraExemption ==
    Computed =>
        LET e == result.old_regime.components["HRA Exemption"]
            hra == Num(data, "hra_received")
            rent == Num(data, "rent_paid")
            salary == Num(data, "annual_income")
            excess == IF rent * 10 > salary THEN (rent * 10 - salary) \div 10 ELSE 0
            limit == IF lower(strip(Get(data, "city_type", <<>>))) = metro
                     THEN salary \div 2 ELSE (salary * 2) \div 5
        IN  IF hra = 0 \/ rent = 0 \/ salary = 0
            THEN e = 0
            ELSE /\ e >= 0
                 /\ e <= hra /\ e <= excess /\ e <= limit
                 /\ e \in {hra, excess, limit}

\* Witness of C7: a positive exemption for a taxpayer whose gross income is more than
\* the salary.
C7_Witness ==
    /\ Computed
    /\ result.old_regime.components["HRA Exemption"] > 0
    /\ Num(data, "income_from_interest") > 0
    /\ result.old_regime.components["HRA Exemption"] < Num(data, "hra_received")

\* C8: best_regime is "New Regime" exactly when the New Regime total is strictly less
\* than the Old Regime total, and "Old Regime" otherwise, a tie included.
C8_BestRegime ==
    Computed =>
        /\ result.best_regime = "New Regime" <=>
               result.new_regime.total_tax_payable < result.old_regime.total_tax_payable
        /\ result.best_regime # "New Regime" => result.best_regime = "Old Regime"
        /\ result.new_regime.total_tax_payable = result.old_regime.total_tax_payable =>
               result.best_regime = "Old Regime"

\* Witness of C8: zero income in every field, both regimes at taxable income 0 and
\* tax 0, and the tie resolved to the Old Regime.
C8_Witness ==
    /\ Computed
    /\ Num(data, "annual_income") = 0
    /\ Num(data, "income_from_interest") = 0
    /\ Num(data, "income_from_other_sources") = 0
    /\ result.old_regime.taxable_income = 0 /\ result.new_regime.taxable_income = 0
    /\ result.old_regime.total_tax_payable = 0 /\ result.new_regime.total_tax_payable = 0
    /\ result.best_regime = "Old Regime"

IncomeKeys == {"annual_income", "income_from_interest", "income_from_other_sources"}

\* C9: two profiles that agree on the three income fields get the same New Regime
\* result, whatever their other fields; and the deduction of the New Regime is 50,000
\* when annual_income is positive and 0 otherwise.
C9_NewRegimeReadsIncomeOnly ==
    pc = "pair_done" =>
        /\ (\A k \in IncomeKeys : Num(pair[1], k) = Num(pair[2], k)) =>
               pair_ret[1] = pair_ret[2]
        /\ \A n \in {1, 2} :
               pair_ret[n].total_deductions =
                   IF Num(pair[n], "annual_income") > 0 THEN R(50000) ELSE 0

\* Witness of C9: two profiles with the same incomes, no salary but interest that is
\* taxed, and different deductions, housing and state.
C9_Witness ==
    /\ pc = "pair_done"
    /\ \A k \in IncomeKeys : Num(pair[1], k) = Num(pair[2], k)
    /\ Num(pair[1], "annual_income") = 0
    /\ Num(pair[1], "income_from_interest") > 0
    /\ Num(pair[1], "section_80c") # Num(pair[2], "section_80c")
    /\ Num(pair[1], "hra_received") # Num(pair[2], "hra_received")
    /\ pair[1].state # pair[2].state
    /\ pair_ret[1].total_deductions = 0
    /\ pair_ret[1].base_tax > 0

\* What C10 states of a name in the list of ten, and of every other name.
PTRule(in_list, gross_income, ret) ==
    /\ in_list /\ gross_income > R(150000) => ret = R(2500)
    /\ in_list /\ gross_income <= R(150000) /\ gross_income > R(100000) => ret = R(2000)
    /\ in_list /\ gross_income <= R(100000) => ret = 0
    /\ ~in_list => ret = 0

\* C10 as stated: the rule applies to the state names whose lower-cased form is one of
\* the ten high-PT jurisdictions; every other name gets 0.
C10_LowerCasedNameOnly ==
    pc = "pt_done" =>
        PTRule(lower(pt_args.state) \in high_pt_states, pt_args.gross_income, pt_ret)

\* C10 amended: the rule applies to the state names whose lower-cased form, with
\* leading and trailing whitespace removed, is one of the ten high-PT jurisdictions:
\* 2500 above 150,000, else 2000 above 100,000, else 0; every other name gets 0.
C10_ProfessionalTax ==
    pc = "pt_done" =>
        PTRule(strip(lower(pt_args.state)) \in high_pt_states, pt_args.gross_income, pt_ret)

\* Witness of C10: a high-PT state at exactly 150,000, which gives 2000.
C10_Witness ==
    /\ pc = "pt_done"
    /\ pt_args.state = <<"M", "A", "H", "A", "R", "A", "S", "H", "T", "R", "A">>
    /\ pt_args.gross_income = R(150000)
    /\ pt_ret = R(2000)

\* C11: in each regime's result taxable_income = max(0, gross_income -
\* total_deductions) and the six amounts are non-negative; in the Old Regime
\* total_deductions is the sum of the eight amounts of the components breakdown,
\* which are the standard deduction 50,000, the professional tax, the five deductions
\* each capped at its limit, and the HRA exemption.
C11_TaxableIncomeAndDeductions ==
    Computed =>
        LET o == result.old_regime
            c == result.old_regime.components
        IN  /\ \A g \in Regimes :
                   LET r == result[g]
                   IN  /\ r.taxable_income = Max2(0, r.gross_income - r.total_deductions)
                       /\ r.gross_income =
                              Num(data, "annual_income") + Num(data, "income_from_interest")
                                  + Num(data, "income_from_other_sources")
                       /\ r.gross_income >= 0 /\ r.total_deductions >= 0
                       /\ r.taxable_income >= 0 /\ r.base_tax >= 0
                       /\ r.cess >= 0 /\ r.total_tax_payable >= 0
            /\ o.total_deductions =
                   c["Standard Deduction"] + c["Professional Tax"] + c["80C"] + c["80D"]
                       + c["80CCD(1B) (NPS)"] + c["80TTA"]
                       + c["Home Loan Interest (24(b))"] + c["HRA Exemption"]
            /\ c["Standard Deduction"] = R(50000)
            /\ c["Professional Tax"] \in {0, R(2000), R(2500)}
            /\ c["80C"] = Min2(Num(data, "section_80c"), R(150000))
            /\ c["80D"] = Min2(Num(data, "section_80d"), R(25000))
            /\ c["80CCD(1B) (NPS)"] = Min2(Num(data, "section_80ccd_1b"), R(50000))
            /\ c["80TTA"] = Min2(Num(data, "section_80tta"), R(10000))
            /\ c["Home Loan Interest (24(b))"] =
                   Min2(Num(data, "home_loan_interest"), R(200000))

\* Witness of C11: an Old Regime result with professional tax, an HRA exemption, an
\* 80D amount that the engine capped, and tax to pay.
C11_Witness ==
    /\ Computed
    /\ result.old_regime.components["Professional Tax"] > 0
    /\ result.old_regime.components["HRA Exemption"] > 0
    /\ Num(data, "section_80d") > R(25000)
    /\ result.old_regime.components["80D"] = R(25000)
    /\ result.old_regime.taxable_income > 0
    /\ result.old_regime.base_tax > 0

\* The topics of the suggestions, in the order of the code's three checks.
SuggestionOrder == <<"80C", "NPS", "Health Insurance">>

SuggestionRank(topic) == CHOOSE k \in DOMAIN SuggestionOrder : SuggestionOrder[k] = topic

\* C12: the suggestions are, in the fixed order 80C, NPS, health insurance, exactly
\* those whose check holds on the input (section_80c < 150,000; section_80ccd_1b <
\* 50,000; section_80d = 0), each at most once; and the old_regime and new_regime
\* figures of the result are what the two calculators return for the input.
C12_Suggestions ==
    Computed =>
        LET s == result.suggestions
            fired == {s[i][1] : i \in DOMAIN s}
        IN  /\ fired \subseteq {SuggestionOrder[k] : k \in DOMAIN SuggestionOrder}
            /\ "80C" \in fired <=> Num(data, "section_80c") < R(150000)
            /\ "NPS" \in fired <=> Num(data, "section_80ccd_1b") < R(50000)
            /\ "Health Insurance" \in fired <=> Num(data, "section_80d") = 0
            /\ \A i, j \in DOMAIN s :
                   i < j => SuggestionRank(s[i][1]) < SuggestionRank(s[j][1])
            /\ result.old_regime = calculate_tax_old_regime(data)
            /\ result.new_regime = calculate_tax_new_regime(data)

\* Witness of C12: 80C is at its limit, so only the NPS and the health-insurance
\* suggestions fire, in that order, and there is tax to pay in both regimes.
C12_Witness ==
    /\ Computed
    /\ Num(data, "section_80c") = R(150000)
    /\ Len(result.suggestions) = 2
    /\ result.suggestions[1][1] = "NPS"
    /\ result.suggestions[2][1] = "Health Insurance"
    /\ result.old_regime.base_tax > 0
    /\ result.new_regime.base_tax > 0

\* C13: for a sanitized profile, the Old Regime taxable_income is never greater than
\* the New Regime taxable_income: the Old Regime deducts at least 50,000, the New
\* Regime 50,000 when annual_income is positive and nothing otherwise.
C13_OldTaxableAtMostNew ==
    pc = "shown" =>
        /\ result.old_regime.taxable_income <= result.new_regime.taxable_income
        /\ result.old_regime.total_deductions >= R(50000)
        /\ result.new_regime.total_deductions <= R(50000)

\* Witness of C13: a sanitized profile with no salary but interest income, where the
\* New Regime deducts nothing and its taxable income is the larger one.
C13_Witness ==
    /\ pc = "shown"
    /\ data.annual_income = 0
    /\ data.income_from_interest > 0
    /\ result.new_regime.total_deductions = 0
    /\ result.new_regime.taxable_income = data.income_from_interest
    /\ result.old_regime.taxable_income < result.new_regime.taxable_income

====
